---- MODULE Spec2Model ----
(***************************************************************************)
(* A model of go-obvious/gateway: the adapter that turns an API Gateway    *)
(* event (legacy proxy schema "V1" or HTTP-API schema "V2") into an        *)
(* http.Request, runs an http.Handler against an in-memory ResponseWriter  *)
(* and converts the captured response back into the gateway's result.      *)
(*                                                                         *)
(* Byte strings ([]byte, and Go strings that carry bodies) are sequences   *)
(* of byte values 0..255.  Header names, header values, paths, queries and *)
(* methods are TLA+ strings.  strings.Split, strings.TrimSpace, url.Parse  *)
(* and the url.Values functions work on them character by character;       *)
(* http.CanonicalHeaderKey, mime.ParseMediaType and the method check of    *)
(* http.NewRequest are tabulated on the finite universes below.            *)
(* A Go map is a function whose DOMAIN is the set of keys present.         *)
(***************************************************************************)
EXTENDS Integers, Sequences, FiniteSets, TLC

VARIABLES
    pc,        \* position of Gateway.Invoke
    gw,        \* the converter pair the Gateway was built with
    ctx,       \* the context.Context handed to Invoke
    payload,   \* the []byte handed to Invoke
    evt,       \* var evt T
    req,       \* *http.Request built by the request converter
    w,         \* *ResponseWriter given to the handler
    respData,  \* the ResponseData read off the sink
    resp,      \* the response converter's result
    ret,       \* what Invoke returned: (payload, error)
    steps,     \* history: the steps of Invoke that ran, in order
    written,   \* history: the byte strings given to Write, concatenated
    firstStatus, \* history: the status the first WriteHeader or Write finalized, 0 before
    nops,      \* history: number of sink operations the handler performed
    heap       \* the sinks allocated while invocations run side by side

vars == <<pc, gw, ctx, payload, evt, req, w, respData, resp, ret, steps, written, firstStatus, nops, heap>>

(***************************************************************************)
(* Bounds of the model.                                                    *)
(***************************************************************************)
\* most sink operations one handler run performs
MaxOps == 3
\* most values one header of a drawn ResponseData holds
MaxVals == 2

Nil == "nil"

(***************************************************************************)
(* Go maps.                                                                *)
(***************************************************************************)
EmptyMap == <<>>

MapPut(m, k, v) == (k :> v) @@ m

MapDel(m, k) == [x \in (DOMAIN m) \ {k} |-> m[x]]

\* every order in which `range m` may visit the keys of a map
RangeOrders(m) ==
    LET n == Cardinality(DOMAIN m)
    IN  {s \in [1..n -> DOMAIN m] : \A i, j \in 1..n : s[i] = s[j] => i = j}

SeqsUpTo(S, n) == UNION {[1..i -> S] : i \in 0..n}

(***************************************************************************)
(* Go strings that are taken apart character by character (query strings,  *)
(* comma-joined header values, paths) are TLA+ strings of printable ASCII. *)
(***************************************************************************)
\* the printable ASCII characters in code order: 32 (space) to 95, 97 to 126
AsciiLow == " !\"#$%&'()*+,-./0123456789:;<=>?@ABCDEFGHIJKLMNOPQRSTUVWXYZ[\\]^_"

AsciiHigh == "abcdefghijklmnopqrstuvwxyz{|}~"

CharAt(s, i) == SubSeq(s, i, i)

\* the byte value of a one-character string
CharCode(c) ==
    IF \E i \in 1..Len(AsciiLow) : CharAt(AsciiLow, i) = c
    THEN 31 + (CHOOSE i \in 1..Len(AsciiLow) : CharAt(AsciiLow, i) = c)
    ELSE 96 + (CHOOSE i \in 1..Len(AsciiHigh) : CharAt(AsciiHigh, i) = c)

\* the Go comparison s < t of two strings, byte by byte
RECURSIVE StringLess(_, _)
StringLess(s, t) ==
    IF Len(t) = 0 THEN FALSE
    ELSE IF Len(s) = 0 THEN TRUE
    ELSE IF CharAt(s, 1) = CharAt(t, 1)
         THEN StringLess(SubSeq(s, 2, Len(s)), SubSeq(t, 2, Len(t)))
    ELSE CharCode(CharAt(s, 1)) < CharCode(CharAt(t, 1))

\* strings.Index(s, c) for a one-character c, from 1; 0 when c is not in s
IndexOf(s, c) ==
    IF \E i \in 1..Len(s) : CharAt(s, i) = c
    THEN CHOOSE i \in 1..Len(s) : CharAt(s, i) = c /\ \A j \in 1..(i - 1) : CharAt(s, j) # c
    ELSE 0

\* strings.Split(s, sep) for a one-character sep
RECURSIVE Split(_, _)
Split(s, sep) ==
    LET i == IndexOf(s, sep)
    IN  IF i = 0 THEN <<s>>
        ELSE <<SubSeq(s, 1, i - 1)>> \o Split(SubSeq(s, i + 1, Len(s)), sep)

WhiteSpace == {" ", "\t", "\n", "\r"}

\* strings.TrimSpace
RECURSIVE TrimSpace(_)
TrimSpace(s) ==
    IF Len(s) = 0 THEN s
    ELSE IF CharAt(s, 1) \in WhiteSpace THEN TrimSpace(SubSeq(s, 2, Len(s)))
    ELSE IF CharAt(s, Len(s)) \in WhiteSpace THEN TrimSpace(SubSeq(s, 1, Len(s) - 1))
    ELSE s

\* strings.Join(parts, sep)
RECURSIVE Join(_, _)
Join(parts, sep) ==
    IF Len(parts) = 0 THEN ""
    ELSE IF Len(parts) = 1 THEN parts[1]
    ELSE parts[1] \o sep \o Join(Tail(parts), sep)

(***************************************************************************)
(* encoding/base64, StdEncoding.  Characters are ASCII codes.              *)
(***************************************************************************)
PadChar == 61

\* the character of a 6-bit value: A-Z a-z 0-9 + /
b64Char(i) ==
    IF i < 26 THEN 65 + i
    ELSE IF i < 52 THEN 71 + i
    ELSE IF i < 62 THEN i - 4
    ELSE IF i = 62 THEN 43
    ELSE 47

\* the 6-bit value of a character, -1 when it is not of the alphabet
b64Val(c) ==
    IF c >= 65 /\ c <= 90 THEN c - 65
    ELSE IF c >= 97 /\ c <= 122 THEN c - 71
    ELSE IF c >= 48 /\ c <= 57 THEN c + 4
    ELSE IF c = 43 THEN 62
    ELSE IF c = 47 THEN 63
    ELSE -1

RECURSIVE EncodeToString(_)
EncodeToString(b) ==
    IF Len(b) = 0 THEN <<>>
    ELSE IF Len(b) = 1 THEN
        <<b64Char(b[1] \div 4), b64Char((b[1] % 4) * 16), PadChar, PadChar>>
    ELSE IF Len(b) = 2 THEN
        <<b64Char(b[1] \div 4), b64Char((b[1] % 4) * 16 + b[2] \div 16),
          b64Char((b[2] % 16) * 4), PadChar>>
    ELSE
        <<b64Char(b[1] \div 4), b64Char((b[1] % 4) * 16 + b[2] \div 16),
          b64Char((b[2] % 16) * 4 + b[3] \div 64), b64Char(b[3] % 64)>>
        \o EncodeToString(SubSeq(b, 4, Len(b)))

\* the decoder skips '\r' and '\n'
RECURSIVE StripNewlines(_)
StripNewlines(s) ==
    IF Len(s) = 0 THEN <<>>
    ELSE IF s[1] \in {10, 13} THEN StripNewlines(Tail(s))
    ELSE <<s[1]>> \o StripNewlines(Tail(s))

\* one quantum of four characters; `last` says it ends the input
DecodeQuantum(q, last) ==
    LET v == [i \in 1..4 |-> b64Val(q[i])]
    IN  IF v[1] >= 0 /\ v[2] >= 0 /\ v[3] >= 0 /\ v[4] >= 0 THEN
            [err |-> FALSE,
             b |-> <<v[1] * 4 + v[2] \div 16,
                     (v[2] % 16) * 16 + v[3] \div 4,
                     (v[3] % 4) * 64 + v[4]>>]
        ELSE IF last /\ v[1] >= 0 /\ v[2] >= 0 /\ v[3] >= 0 /\ q[4] = PadChar THEN
            [err |-> FALSE,
             b |-> <<v[1] * 4 + v[2] \div 16, (v[2] % 16) * 16 + v[3] \div 4>>]
        ELSE IF last /\ v[1] >= 0 /\ v[2] >= 0 /\ q[3] = PadChar /\ q[4] = PadChar THEN
            [err |-> FALSE, b |-> <<v[1] * 4 + v[2] \div 16>>]
        ELSE [err |-> TRUE, b |-> <<>>]

RECURSIVE DecodeStripped(_)
DecodeStripped(s) ==
    IF Len(s) = 0 THEN [err |-> FALSE, b |-> <<>>]
    ELSE IF Len(s) < 4 THEN [err |-> TRUE, b |-> <<>>]
    ELSE LET q == DecodeQuantum(SubSeq(s, 1, 4), Len(s) = 4)
             r == DecodeStripped(SubSeq(s, 5, Len(s)))
         IN  IF q.err \/ r.err THEN [err |-> TRUE, b |-> <<>>]
             ELSE [err |-> FALSE, b |-> q.b \o r.b]

DecodeString(s) == DecodeStripped(StripNewlines(s))

(***************************************************************************)
(* net/http Header and net/textproto.                                      *)
(***************************************************************************)
\* header names the model uses, as a handler or an event may spell them
HeaderNames ==
    {"Content-Type", "content-type", "Content-Encoding", "Set-Cookie",
     "set-cookie", "SET-COOKIE", "X-Custom-Header", "Host", "Content-Length",
     "X-Request-Id", "x-request-id", "X-REQUEST-ID", "X-Stage", "x-stage",
     "content-length", "CONTENT-LENGTH", "X-Amzn-Trace-Id", "Cookie", "cookie",
     "Accept", "accept"}

CanonicalHeaderKey(k) ==
    CASE k \in {"Content-Type", "content-type"} -> "Content-Type"
      [] k \in {"Set-Cookie", "set-cookie", "SET-COOKIE"} -> "Set-Cookie"
      [] k \in {"X-Request-Id", "x-request-id", "X-REQUEST-ID"} -> "X-Request-Id"
      [] k \in {"X-Stage", "x-stage"} -> "X-Stage"
      [] k \in {"Content-Length", "content-length", "CONTENT-LENGTH"} -> "Content-Length"
      [] k \in {"Cookie", "cookie"} -> "Cookie"
      [] k \in {"Accept", "accept"} -> "Accept"
      [] OTHER -> k

HeaderGet(h, key) ==
    LET k == CanonicalHeaderKey(key)
    IN  IF k \notin DOMAIN h THEN ""
        ELSE IF Len(h[k]) = 0 THEN ""
        ELSE h[k][1]

HeaderSet(h, key, value) == MapPut(h, CanonicalHeaderKey(key), <<value>>)

HeaderAdd(h, key, value) ==
    LET k == CanonicalHeaderKey(key)
    IN  MapPut(h, k, (IF k \in DOMAIN h THEN h[k] ELSE <<>>) \o <<value>>)

HeaderDel(h, key) == MapDel(h, CanonicalHeaderKey(key))

(***************************************************************************)
(* mime.ParseMediaType on the Content-Type values of the model.            *)
(***************************************************************************)
DefaultContentType == "text/plain; charset=utf8"

TextTypes == {"text/plain", DefaultContentType, "TEXT/HTML"}

ListedTypes ==
    {"image/svg+xml", "application/json", "application/xml",
     "application/javascript", "application/vnd.api+json",
     "application/json; charset=utf-8"}

\* values mime.ParseMediaType rejects: no media type, no subtype after the
\* slash, a parameter without a value
MalformedTypes == {"", "text/", "text/plain; charset"}

OtherTypes == {"image/png", "application/octet-stream", "text"}

ContentTypes == TextTypes \cup ListedTypes \cup MalformedTypes \cup OtherTypes

\* (mediatype, err): the type in lower case, parameters dropped
ParseMediaType(v) ==
    CASE v = "" -> [mt |-> "", err |-> TRUE]
      [] v = "text/" -> [mt |-> "", err |-> TRUE]
      [] v = "text/plain; charset" -> [mt |-> "text/plain", err |-> TRUE]
      [] v = DefaultContentType -> [mt |-> "text/plain", err |-> FALSE]
      [] v = "TEXT/HTML" -> [mt |-> "text/html", err |-> FALSE]
      [] v = "application/json; charset=utf-8" -> [mt |-> "application/json", err |-> FALSE]
      [] OTHER -> [mt |-> v, err |-> FALSE]

\* strings.HasPrefix(mt, "text/") on the media types ParseMediaType yields
HasPrefixText(mt) == mt \in {"text/plain", "text/html"}

(***************************************************************************)
(* ResponseWriter: the in-memory sink handed to the handler.               *)
(***************************************************************************)
StatusOK == 200

\* a sink whose status starts at Go's zero value
NewResponseZeroStatus ==
    [buf |-> <<>>, header |-> EmptyMap, wroteHeader |-> FALSE, statusCode |-> 0]

NewResponse ==
    [buf |-> <<>>, header |-> EmptyMap, wroteHeader |-> FALSE, statusCode |-> StatusOK]

Header(rw) == rw.header

\* WriteHeader without its wroteHeader guard: the last call wins
WriteHeaderLastWins(rw, statusCode) ==
    [rw EXCEPT
        !.header = IF HeaderGet(rw.header, "Content-Type") = ""
                   THEN HeaderSet(rw.header, "Content-Type", DefaultContentType)
                   ELSE rw.header,
        !.statusCode = statusCode,
        !.wroteHeader = TRUE]

WriteHeader(rw, statusCode) ==
    IF rw.wroteHeader THEN rw
    ELSE [rw EXCEPT
            !.header = IF HeaderGet(rw.header, "Content-Type") = ""
                       THEN HeaderSet(rw.header, "Content-Type", DefaultContentType)
                       ELSE rw.header,
            !.statusCode = statusCode,
            !.wroteHeader = TRUE]

\* Write that appends without finalizing the header
WriteWithoutFinalize(rw, b) == [rw EXCEPT !.buf = rw.buf \o b]

Write(rw, b) ==
    LET h == IF ~rw.wroteHeader THEN WriteHeader(rw, StatusOK) ELSE rw
    IN  [h EXCEPT !.buf = h.buf \o b]

(***************************************************************************)
(* Binary detection.                                                       *)
(***************************************************************************)
\* isTextMime that drops the parse error and judges the type it got
isTextMimeIgnoringError(kind) ==
    LET p == ParseMediaType(kind)
    IN  IF HasPrefixText(p.mt) THEN TRUE
        ELSE p.mt \in {"image/svg+xml", "application/json", "application/xml",
                       "application/javascript", "application/vnd.api+json"}

isTextMime(kind) ==
    LET p == ParseMediaType(kind)
    IN  IF p.err THEN FALSE
        ELSE IF HasPrefixText(p.mt) THEN TRUE
        ELSE p.mt \in {"image/svg+xml", "application/json", "application/xml",
                       "application/javascript", "application/vnd.api+json"}

\* isBinary that takes any Content-Encoding for a compressed body
isBinaryAnyEncoding(h) ==
    ~isTextMime(HeaderGet(h, "Content-Type")) \/ HeaderGet(h, "Content-Encoding") # ""

isBinary(h) ==
    LET contentType == HeaderGet(h, "Content-Type")
    IN  ~isTextMime(contentType) \/ HeaderGet(h, "Content-Encoding") = "gzip"

(***************************************************************************)
(* Response converters.  ResponseData is [StatusCode, Headers, Body].      *)
(***************************************************************************)
ResponseBody(data, isBin) ==
    IF isBin THEN EncodeToString(data.Body) ELSE data.Body

\* ConvertResponseV1 that puts the first value of every header in Headers
ConvertResponseV1FirstValue(data) ==
    LET some == {k \in DOMAIN data.Headers : Len(data.Headers[k]) >= 1}
        isBin == isBinary(data.Headers)
    IN  [err |-> Nil,
         out |-> [StatusCode |-> data.StatusCode,
                  Headers |-> [k \in some |-> data.Headers[k][1]],
                  MultiValueHeaders |-> [k \in some |-> data.Headers[k]],
                  IsBase64Encoded |-> isBin,
                  Body |-> ResponseBody(data, isBin)]]

ConvertResponseV1(data) ==
    LET one  == {k \in DOMAIN data.Headers : Len(data.Headers[k]) = 1}
        some == {k \in DOMAIN data.Headers : Len(data.Headers[k]) >= 1}
        isBin == isBinary(data.Headers)
    IN  [err |-> Nil,
         out |-> [StatusCode |-> data.StatusCode,
                  Headers |-> [k \in one |-> data.Headers[k][1]],
                  MultiValueHeaders |-> [k \in some |-> data.Headers[k]],
                  IsBase64Encoded |-> isBin,
                  Body |-> ResponseBody(data, isBin)]]

\* the cookies collected while `range data.Headers` visits the keys in `ord`
RECURSIVE CollectCookies(_, _)
CollectCookies(h, ord) ==
    IF Len(ord) = 0 THEN <<>>
    ELSE (IF CanonicalHeaderKey(ord[1]) = "Set-Cookie" THEN h[ord[1]] ELSE <<>>)
         \o CollectCookies(h, Tail(ord))

\* ConvertResponseV2 that compares the key as spelled, without CanonicalHeaderKey
ConvertResponseV2ExactName(data, ord) ==
    LET plain == {k \in DOMAIN data.Headers : k # "Set-Cookie"}
        one  == {k \in plain : Len(data.Headers[k]) = 1}
        some == {k \in plain : Len(data.Headers[k]) >= 1}
        isBin == isBinary(data.Headers)
    IN  [err |-> Nil,
         out |-> [StatusCode |-> data.StatusCode,
                  Headers |-> [k \in one |-> data.Headers[k][1]],
                  MultiValueHeaders |-> [k \in some |-> data.Headers[k]],
                  Cookies |-> IF "Set-Cookie" \in DOMAIN data.Headers
                              THEN data.Headers["Set-Cookie"] ELSE <<>>,
                  IsBase64Encoded |-> isBin,
                  Body |-> ResponseBody(data, isBin)]]

ConvertResponseV2(data, ord) ==
    LET plain == {k \in DOMAIN data.Headers : CanonicalHeaderKey(k) # "Set-Cookie"}
        one  == {k \in plain : Len(data.Headers[k]) = 1}
        some == {k \in plain : Len(data.Headers[k]) >= 1}
        isBin == isBinary(data.Headers)
    IN  [err |-> Nil,
         out |-> [StatusCode |-> data.StatusCode,
                  Headers |-> [k \in one |-> data.Headers[k][1]],
                  MultiValueHeaders |-> [k \in some |-> data.Headers[k]],
                  Cookies |-> CollectCookies(data.Headers, ord),
                  IsBase64Encoded |-> isBin,
                  Body |-> ResponseBody(data, isBin)]]

(***************************************************************************)
(* encoding/json of a result: a Go string that is not valid UTF-8 is       *)
(* written with U+FFFD (EF BF BD) in place of each offending byte.  The    *)
(* only byte above 127 the model writes is 255, which no UTF-8 sequence    *)
(* holds.                                                                  *)
(***************************************************************************)
RECURSIVE ToValidUTF8(_)
ToValidUTF8(s) ==
    IF Len(s) = 0 THEN <<>>
    ELSE (IF s[1] < 128 THEN <<s[1]>> ELSE <<239, 191, 189>>) \o ToValidUTF8(Tail(s))

Marshal(r) == [r EXCEPT !.Body = ToValidUTF8(r.Body)]

(***************************************************************************)
(* context.Context: the chain of WithValue entries, outermost first.       *)
(* A key is (type, id); a value carries its dynamic type.                  *)
(***************************************************************************)
Background == <<>>

requestContextKey == [type |-> "internal.Key", id |-> "0"]

gatewayRequestContextKey == [type |-> "gateway.Key", id |-> "0"]

traceKey == [type |-> "string", id |-> "x-amzn-trace-id"]

NilValue == [type |-> "nil", v |-> Nil]

WithValue(c, key, val) == Append(c, [key |-> key, val |-> val])

Value(c, key) ==
    LET hits == {i \in 1..Len(c) : c[i].key = key}
    IN  IF hits = {} THEN NilValue
        ELSE c[CHOOSE i \in hits : \A j \in hits : j <= i].val

\* NewContext that attaches the event under the public package's key
NewContextPublicKey(c, e) == WithValue(c, gatewayRequestContextKey, e)

NewContext(c, e) == WithValue(c, requestContextKey, e)

\* RequestContext[T]: e is a value tagged with its dynamic type, T a type name
RequestContext(T, c) ==
    LET v == Value(c, requestContextKey)
    IN  [c |-> v, ok |-> v.type = T]

\* the public package's RequestContext
GatewayRequestContext(c) ==
    LET v == Value(c, gatewayRequestContextKey)
    IN  [c |-> v, ok |-> v.type = "events.APIGatewayProxyRequestContext"]

(***************************************************************************)
(* Request converters.  The request is the record of what the handler can  *)
(* read: Method, Path, Host, RemoteAddr, Header, Body and its context.     *)
(***************************************************************************)
(***************************************************************************)
(* net/url on the texts of the model: printable ASCII, a path that starts  *)
(* with "/" and holds no valid percent escape (so that the decoded path is *)
(* the text itself).                                                       *)
(***************************************************************************)
UpperHex == "0123456789ABCDEF"

HexDigits == "0123456789ABCDEFabcdef"

ishex(c) == \E i \in 1..Len(HexDigits) : CharAt(HexDigits, i) = c

\* the value of a hex digit
unhex(c) ==
    LET i == CHOOSE j \in 1..Len(HexDigits) : CharAt(HexDigits, j) = c
    IN  IF i <= 16 THEN i - 1 ELSE i - 7

\* the one-character string of a byte value 32..126
CharOf(code) ==
    IF code < 96 THEN CharAt(AsciiLow, code - 31) ELSE CharAt(AsciiHigh, code - 96)

\* a "%" that two hex digits do not follow
RECURSIVE BadEscape(_)
BadEscape(s) ==
    IF Len(s) = 0 THEN FALSE
    ELSE IF CharAt(s, 1) # "%" THEN BadEscape(SubSeq(s, 2, Len(s)))
    ELSE IF Len(s) < 3 THEN TRUE
    ELSE IF ~ishex(CharAt(s, 2)) \/ ~ishex(CharAt(s, 3)) THEN TRUE
    ELSE BadEscape(SubSeq(s, 4, Len(s)))

\* strings.Cut(s, sep): the text before the first sep and the text after it
Cut(s, sep) ==
    LET i == IndexOf(s, sep)
    IN  IF i = 0 THEN [before |-> s, after |-> "", found |-> FALSE]
        ELSE [before |-> SubSeq(s, 1, i - 1), after |-> SubSeq(s, i + 1, Len(s)),
              found |-> TRUE]

\* url.Parse: the fragment is cut at the first "#", the query at the first
\* "?", and the path and the fragment are unescaped
urlParse(rawURL) ==
    LET f == Cut(rawURL, "#")
        q == Cut(f.before, "?")
    IN  IF BadEscape(f.after) \/ BadEscape(q.before)
        THEN [err |-> TRUE, Path |-> "", RawQuery |-> "", Fragment |-> ""]
        ELSE [err |-> FALSE, Path |-> q.before, RawQuery |-> q.after,
              Fragment |-> f.after]

\* url.Parse fails on a path with a broken percent escape
urlParseFails(path) == urlParse(path).err

\* (*URL).String of a URL without scheme and host
urlString(u) ==
    u.Path \o (IF u.RawQuery # "" THEN "?" \o u.RawQuery ELSE "")
           \o (IF u.Fragment # "" THEN "#" \o u.Fragment ELSE "")

\* (*URL).RequestURI
urlRequestURI(u) ==
    (IF u.Path = "" THEN "/" ELSE u.Path)
        \o (IF u.RawQuery # "" THEN "?" \o u.RawQuery ELSE "")

\* shouldEscape in a query component: letters, digits and - _ . ~ are kept
unreserved(c) ==
    \/ c \in {"-", "_", ".", "~"}
    \/ LET n == CharCode(c)
       IN  (n >= 48 /\ n <= 57) \/ (n >= 65 /\ n <= 90) \/ (n >= 97 /\ n <= 122)

RECURSIVE QueryEscape(_)
QueryEscape(s) ==
    IF Len(s) = 0 THEN ""
    ELSE LET c == CharAt(s, 1)
             n == CharCode(c)
             e == IF unreserved(c) THEN c
                  ELSE IF c = " " THEN "+"
                  ELSE "%" \o CharAt(UpperHex, (n \div 16) + 1) \o CharAt(UpperHex, (n % 16) + 1)
         IN  e \o QueryEscape(SubSeq(s, 2, Len(s)))

\* QueryUnescape of a text without a broken escape
RECURSIVE QueryUnescape(_)
QueryUnescape(s) ==
    IF Len(s) = 0 THEN ""
    ELSE IF CharAt(s, 1) = "%"
         THEN CharOf(16 * unhex(CharAt(s, 2)) + unhex(CharAt(s, 3)))
                  \o QueryUnescape(SubSeq(s, 4, Len(s)))
    ELSE (IF CharAt(s, 1) = "+" THEN " " ELSE CharAt(s, 1))
             \o QueryUnescape(SubSeq(s, 2, Len(s)))

\* url.Values: v[key] = append(v[key], value)
ValuesAdd(v, key, value) ==
    MapPut(v, key, (IF key \in DOMAIN v THEN v[key] ELSE <<>>) \o <<value>>)

\* url.ParseQuery as (*URL).Query uses it: a pair that is empty, holds a
\* ";" or a broken escape is skipped
RECURSIVE parseQuery(_, _)
parseQuery(m, query) ==
    IF Len(query) = 0 THEN m
    ELSE LET c == Cut(query, "&")
             kv == Cut(c.before, "=")
         IN  IF \/ c.before = ""
                \/ IndexOf(c.before, ";") # 0
                \/ BadEscape(kv.before)
                \/ BadEscape(kv.after)
             THEN parseQuery(m, c.after)
             ELSE parseQuery(ValuesAdd(m, QueryUnescape(kv.before), QueryUnescape(kv.after)),
                             c.after)

Query(u) == parseQuery(EmptyMap, u.RawQuery)

\* for k, v := range m { q.Set(k, v) }
SetEachValue(q, m) == [k \in DOMAIN q \cup DOMAIN m |-> IF k \in DOMAIN m THEN <<m[k]>> ELSE q[k]]

\* AssignEachValue that appends the values to those the key has
AssignEachValueAppending(q, m) ==
    [k \in DOMAIN q \cup DOMAIN m |->
        (IF k \in DOMAIN q THEN q[k] ELSE <<>>) \o (IF k \in DOMAIN m THEN m[k] ELSE <<>>)]

\* for k, values := range m { q[k] = values }
AssignEachValue(q, m) == [k \in DOMAIN q \cup DOMAIN m |-> IF k \in DOMAIN m THEN m[k] ELSE q[k]]

\* the keys of a map in the order slices.Sort puts them
SortedKeys(m) ==
    CHOOSE s \in RangeOrders(m) :
        \A i, j \in 1..Len(s) : i < j => StringLess(s[i], s[j])

\* key=value of every value of one key, each pair escaped
RECURSIVE EncodeKey(_, _)
EncodeKey(k, vs) ==
    IF Len(vs) = 0 THEN <<>>
    ELSE <<QueryEscape(k) \o "=" \o QueryEscape(vs[1])>> \o EncodeKey(k, Tail(vs))

RECURSIVE EncodePairs(_, _)
EncodePairs(v, keys) ==
    IF Len(keys) = 0 THEN <<>>
    ELSE EncodeKey(keys[1], v[keys[1]]) \o EncodePairs(v, Tail(keys))

\* url.Values.Encode: sorted by key, pairs joined by "&"
ValuesEncode(v) == Join(EncodePairs(v, SortedKeys(v)), "&")

\* http.NewRequest takes "" for GET and rejects a method that is no token
validMethod(m) == m \in {"GET", "POST"}

\* NewRequest that takes any method
NewRequestAnyMethod(c, method, url, body) ==
    LET u == urlParse(url)
    IN  IF u.err THEN [err |-> "creating request", req |-> Nil]
        ELSE [err |-> Nil,
              req |-> [Method |-> method, Path |-> u.Path, RawQuery |-> u.RawQuery,
                       RequestURI |-> "", Host |-> "", RemoteAddr |-> "",
                       Header |-> EmptyMap, Body |-> body, ctx |-> c]]

\* http.NewRequestWithContext: the method is checked and the text of the URL
\* parsed anew
NewRequest(c, method, url, body) ==
    LET m == IF method = "" THEN "GET" ELSE method
        u == urlParse(url)
    IN  IF ~validMethod(m) \/ u.err THEN [err |-> "creating request", req |-> Nil]
        ELSE [err |-> Nil,
              req |-> [Method |-> m, Path |-> u.Path, RawQuery |-> u.RawQuery,
                       RequestURI |-> "", Host |-> "", RemoteAddr |-> "",
                       Header |-> EmptyMap, Body |-> body, ctx |-> c]]

\* for k, v := range m { h.Set(k, v) }, the keys visited in `ord`
RECURSIVE SetEach(_, _, _)
SetEach(h, m, ord) ==
    IF Len(ord) = 0 THEN h
    ELSE SetEach(HeaderSet(h, ord[1], m[ord[1]]), m, Tail(ord))

\* for _, v := range values { h.Add(k, v) }
RECURSIVE AddValues(_, _, _)
AddValues(h, k, values) ==
    IF Len(values) = 0 THEN h
    ELSE AddValues(HeaderAdd(h, k, values[1]), k, Tail(values))

\* for k, values := range m { for _, v := range values { h.Add(k, v) } }
RECURSIVE AddEach(_, _, _)
AddEach(h, m, ord) ==
    IF Len(ord) = 0 THEN h
    ELSE AddEach(AddValues(h, ord[1], m[ord[1]]), m, Tail(ord))

\* strings.Split(v, ",") with strings.TrimSpace of each segment
SplitTrim(v) ==
    LET parts == Split(v, ",")
    IN  [i \in 1..Len(parts) |-> TrimSpace(parts[i])]

\* for k, values := range m { for each segment of values { h.Add(k, segment) } }
RECURSIVE AddSplitEach(_, _, _)
AddSplitEach(h, m, ord) ==
    IF Len(ord) = 0 THEN h
    ELSE AddSplitEach(AddValues(h, ord[1], SplitTrim(m[ord[1]])), m, Tail(ord))

\* FinishRequest that sets Content-Length whatever the event supplied
FinishRequestAlwaysLength(c, r, body, tagged, requestID, stage) ==
    LET h1 == IF Len(body) # 0
              THEN HeaderSet(r.Header, "Content-Length", ToString(Len(body)))
              ELSE r.Header
        h2 == HeaderSet(HeaderSet(h1, "X-Request-Id", requestID), "X-Stage", stage)
        trace == Value(c, traceKey)
        h3 == IF trace.type # "nil" THEN HeaderSet(h2, "X-Amzn-Trace-Id", trace.v) ELSE h2
    IN  [r EXCEPT !.Header = h3,
                  !.ctx = NewContext(c, tagged),
                  !.Host = HeaderGet(h3, "Host")]

\* FinishRequest that appends the two identifying headers to what is there
FinishRequestAppendingIds(c, r, body, tagged, requestID, stage) ==
    LET h1 == IF HeaderGet(r.Header, "Content-Length") = "" /\ Len(body) # 0
              THEN HeaderSet(r.Header, "Content-Length", ToString(Len(body)))
              ELSE r.Header
        h2 == HeaderAdd(HeaderAdd(h1, "X-Request-Id", requestID), "X-Stage", stage)
        trace == Value(c, traceKey)
        h3 == IF trace.type # "nil" THEN HeaderSet(h2, "X-Amzn-Trace-Id", trace.v) ELSE h2
    IN  [r EXCEPT !.Header = h3,
                  !.ctx = NewContext(c, tagged),
                  !.Host = HeaderGet(h3, "Host")]

\* the part both converters share once the event's own headers are in place
FinishRequest(c, r, body, tagged, requestID, stage) ==
    LET h1 == IF HeaderGet(r.Header, "Content-Length") = "" /\ Len(body) # 0
              THEN HeaderSet(r.Header, "Content-Length", ToString(Len(body)))
              ELSE r.Header
        h2 == HeaderSet(HeaderSet(h1, "X-Request-Id", requestID), "X-Stage", stage)
        trace == Value(c, traceKey)
        h3 == IF trace.type # "nil" THEN HeaderSet(h2, "X-Amzn-Trace-Id", trace.v) ELSE h2
    IN  [r EXCEPT !.Header = h3,
                  !.ctx = NewContext(c, tagged),
                  !.Host = HeaderGet(h3, "Host")]

\* DecodeBody that drops the decoder's error and keeps what it decoded
DecodeBodyUnchecked(body, isBase64Encoded) ==
    [err |-> Nil, body |-> IF isBase64Encoded THEN DecodeString(body).b ELSE body]

\* body := e.Body; if e.IsBase64Encoded { decode it, or fail }
DecodeBody(body, isBase64Encoded) ==
    IF ~isBase64Encoded THEN [err |-> Nil, body |-> body]
    ELSE LET dec == DecodeString(body)
         IN  IF dec.err THEN [err |-> "decoding base64 body", body |-> <<>>]
             ELSE [err |-> Nil, body |-> dec.b]

TypeV1 == "events.APIGatewayProxyRequest"

TypeV2 == "events.APIGatewayV2HTTPRequest"

\* ord.Headers, ord.MultiValueHeaders: the orders the two range loops take
ConvertAPIGatewayProxyRequest(c, e, ord) ==
    IF urlParseFails(e.Path) THEN [err |-> "parsing path", req |-> Nil]
    ELSE LET dec == DecodeBody(e.Body, e.IsBase64Encoded)
             p == urlParse(e.Path)
             q == AssignEachValue(SetEachValue(Query(p), e.QueryStringParameters),
                                  e.MultiValueQueryStringParameters)
             u == [p EXCEPT !.RawQuery = ValuesEncode(q)]
         IN  IF dec.err # Nil
             THEN [err |-> dec.err, req |-> Nil]
             ELSE LET body == dec.body
                      n == NewRequest(Background, e.HTTPMethod, urlString(u), body)
                  IN  IF n.err # Nil THEN n
                      ELSE LET r == [n.req EXCEPT
                                        !.RequestURI = urlRequestURI(u),
                                        !.RemoteAddr = e.RequestContext.Identity.SourceIP,
                                        !.Header = AddEach(SetEach(EmptyMap, e.Headers, ord.Headers),
                                                           e.MultiValueHeaders, ord.MultiValueHeaders)]
                           IN  [err |-> Nil,
                                req |-> FinishRequest(c, r, body, [type |-> TypeV1, v |-> e],
                                                      e.RequestContext.RequestID,
                                                      e.RequestContext.Stage)]

ConvertAPIGatewayV2HTTPRequest(c, e, ord) ==
    IF urlParseFails(e.RawPath) THEN [err |-> "parsing raw path", req |-> Nil]
    ELSE LET dec == DecodeBody(e.Body, e.IsBase64Encoded)
             u == [urlParse(e.RawPath) EXCEPT !.RawQuery = e.RawQueryString]
         IN  IF dec.err # Nil
             THEN [err |-> dec.err, req |-> Nil]
             ELSE LET body == dec.body
                      n == NewRequest(c, e.RequestContext.HTTP.Method, urlString(u), body)
                  IN  IF n.err # Nil THEN n
                      ELSE LET r == [n.req EXCEPT
                                        !.RequestURI = urlRequestURI(u),
                                        !.RemoteAddr = e.RequestContext.HTTP.SourceIP,
                                        !.Header = AddValues(AddSplitEach(EmptyMap, e.Headers, ord.Headers),
                                                             "Cookie", e.Cookies)]
                           IN  [err |-> Nil,
                                req |-> FinishRequest(c, r, body, [type |-> TypeV2, v |-> e],
                                                      e.RequestContext.RequestID,
                                                      e.RequestContext.Stage)]

(***************************************************************************)
(* The inputs of an invocation.                                            *)
(***************************************************************************)
\* "TQ==" is base64 of "M"; "T\nQ==" the same with a line break; "TWE=" of
\* "Ma"; "TQ=" and "TQ" are not base64
EvtBodies ==
    {<<>>, <<84, 81, 61, 61>>, <<84, 10, 81, 61, 61>>, <<84, 87, 69, 61>>,
     <<84, 81, 61>>, <<84, 81>>}

RequestContextV1 ==
    [RequestID |-> "req-1", Stage |-> "prod", Identity |-> [SourceIP |-> "10.0.0.1"]]

RequestContextV2(m) ==
    [RequestID |-> "req-1", Stage |-> "prod", HTTP |-> [Method |-> m, SourceIP |-> "10.0.0.1"]]

EventsV1 ==
    {[Path |-> p, HTTPMethod |-> m, Headers |-> ("Host" :> "example.com"),
      MultiValueHeaders |-> EmptyMap, QueryStringParameters |-> EmptyMap,
      MultiValueQueryStringParameters |-> EmptyMap, Body |-> b, IsBase64Encoded |-> f,
      RequestContext |-> RequestContextV1] :
        p \in {"/test", "/%zz"}, m \in {"GET", "BAD METHOD"},
        b \in EvtBodies, f \in BOOLEAN}

EventsV2 ==
    {[RawPath |-> p, RawQueryString |-> "", Headers |-> ("Host" :> "example.com"),
      Cookies |-> <<>>,
      Body |-> b, IsBase64Encoded |-> f, RequestContext |-> RequestContextV2(m)] :
        p \in {"/test", "/%zz"}, m \in {"GET", "BAD METHOD"},
        b \in EvtBodies, f \in BOOLEAN}

\* a Gateway built over a caller's own event type and converters
EventsCustom == {[ID |-> "123"]}

Events(g) ==
    CASE g = "V1" -> EventsV1
      [] g = "V2" -> EventsV2
      [] OTHER -> EventsCustom

\* a payload is the JSON of an event, or bytes json.Unmarshal rejects
Malformed == [ok |-> FALSE]

Payloads(g) == {Malformed} \cup {[ok |-> TRUE, evt |-> e] : e \in Events(g)}

Contexts == {Background, WithValue(Background, traceKey, [type |-> "string", v |-> "Root=1-abc"])}

(***************************************************************************)
(* What a handler may do with the sink.                                    *)
(***************************************************************************)
StatusCodes == {200, 404}

Chunks == {<<>>, <<77>>, <<255, 97>>}

HandlerHeaders == {"Content-Type", "Content-Encoding", "Set-Cookie"}

HandlerValues(k) ==
    CASE k = "Content-Type" -> {"", "image/png", "text/plain"}
      [] k = "Content-Encoding" -> {"gzip"}
      [] OTHER -> {"a=1", "b=2"}

\* w.Header()[k] = vs, which spells the key as the handler wrote it
HandlerAssignments == {<<"set-cookie", <<"c=3">> >>, <<"Content-Type", <<>> >>}

(***************************************************************************)
(* Gateway.Invoke, step by step.                                           *)
(***************************************************************************)
Init ==
    /\ pc = "start"
    /\ gw \in {"V1", "V2", "Custom"}
    /\ ctx \in Contexts
    /\ payload \in Payloads(gw)
    /\ evt = Nil
    /\ req = Nil
    /\ w = Nil
    /\ respData = Nil
    /\ resp = Nil
    /\ ret = Nil
    /\ steps = <<>>
    /\ written = <<>>
    /\ firstStatus = 0
    /\ nops = 0
    /\ heap = <<>>

\* Invoke's results: a nil []byte is the empty one, an encoded result a
\* non-empty one holding the JSON value
NoBytes == <<>>

Return(p, e) == [payload |-> p, err |-> e]

\* Decode that goes on with the zero event when json.Unmarshal fails
DecodeUnchecked ==
    /\ pc = "start"
    /\ steps' = Append(steps, "decode")
    /\ evt' = IF payload.ok THEN payload.evt ELSE CHOOSE e \in Events(gw) : TRUE
    /\ pc' = "convert"
    /\ UNCHANGED <<heap, gw, ctx, payload, req, w, respData, resp, ret, written, firstStatus, nops>>

\* json.Unmarshal(payload, &evt)
Decode ==
    /\ pc = "start"
    /\ steps' = Append(steps, "decode")
    /\ IF payload.ok
       THEN /\ evt' = payload.evt
            /\ pc' = "convert"
            /\ ret' = ret
       ELSE /\ evt' = evt
            /\ pc' = "done"
            /\ ret' = Return(NoBytes, "failed to unmarshal payload")
    /\ UNCHANGED <<heap, gw, ctx, payload, req, w, respData, resp, written, firstStatus, nops>>

\* a caller's converter: it fails or builds a request as it sees fit
CustomRequestConverter(c, e, fails) ==
    IF fails THEN [err |-> "custom", req |-> Nil]
    ELSE NewRequest(c, "GET", "/", <<>>)

requestConverter(g, c, e, ord, fails) ==
    CASE g = "V1" -> ConvertAPIGatewayProxyRequest(c, e, ord)
      [] g = "V2" -> ConvertAPIGatewayV2HTTPRequest(c, e, ord)
      [] OTHER -> CustomRequestConverter(c, e, fails)

EventOrders(g, e) ==
    CASE g = "V1" -> [Headers : RangeOrders(e.Headers),
                      MultiValueHeaders : RangeOrders(e.MultiValueHeaders)]
      [] g = "V2" -> [Headers : RangeOrders(e.Headers)]
      [] OTHER -> {Nil}

\* req, err := gw.requestConverter(ctx, evt)
ConvertRequest ==
    /\ pc = "convert"
    /\ steps' = Append(steps, "convert_request")
    /\ \E ord \in EventOrders(gw, evt), fails \in (IF gw = "Custom" THEN BOOLEAN ELSE {FALSE}) :
          LET r == requestConverter(gw, ctx, evt, ord, fails)
          IN  IF r.err # Nil
              THEN /\ pc' = "done"
                   /\ ret' = Return(NoBytes, "failed to convert event to request")
                   /\ req' = req
              ELSE /\ pc' = "dispatch"
                   /\ req' = r.req
                   /\ ret' = ret
    /\ UNCHANGED <<heap, gw, ctx, payload, evt, w, respData, resp, written, firstStatus, nops>>

\* w := NewResponse(); gw.handler.ServeHTTP(w, req) is entered
Dispatch ==
    /\ pc = "dispatch"
    /\ steps' = Append(steps, "dispatch")
    /\ w' = NewResponse
    /\ pc' = "handler"
    /\ UNCHANGED <<heap, gw, ctx, payload, evt, req, respData, resp, ret, written, firstStatus, nops>>

HandlerStep ==
    /\ pc = "handler"
    /\ nops < MaxOps
    /\ nops' = nops + 1
    /\ UNCHANGED <<heap, pc, gw, ctx, payload, evt, req, respData, resp, ret, steps>>

HandlerWriteHeader ==
    /\ HandlerStep
    /\ \E code \in StatusCodes :
          /\ w' = WriteHeader(w, code)
          /\ firstStatus' = IF firstStatus = 0 THEN code ELSE firstStatus
    /\ written' = written

HandlerWrite ==
    /\ HandlerStep
    /\ \E b \in Chunks :
          /\ w' = Write(w, b)
          /\ written' = written \o b
    /\ firstStatus' = IF firstStatus = 0 THEN 200 ELSE firstStatus

HandlerHeaderSet ==
    /\ HandlerStep
    /\ \E k \in HandlerHeaders : \E v \in HandlerValues(k) :
          w' = [w EXCEPT !.header = HeaderSet(Header(w), k, v)]
    /\ UNCHANGED <<written, firstStatus>>

HandlerHeaderAdd ==
    /\ HandlerStep
    /\ \E k \in HandlerHeaders : \E v \in HandlerValues(k) :
          w' = [w EXCEPT !.header = HeaderAdd(Header(w), k, v)]
    /\ UNCHANGED <<written, firstStatus>>

HandlerHeaderDel ==
    /\ HandlerStep
    /\ \E k \in HandlerHeaders : w' = [w EXCEPT !.header = HeaderDel(Header(w), k)]
    /\ UNCHANGED <<written, firstStatus>>

HandlerHeaderAssign ==
    /\ HandlerStep
    /\ \E a \in HandlerAssignments : w' = [w EXCEPT !.header = MapPut(Header(w), a[1], a[2])]
    /\ UNCHANGED <<written, firstStatus>>

\* HandlerReturn that reads the headers as finalization would leave them,
\* a missing Content-Type of a finalized sink filled in again
HandlerReturnDefaultingType ==
    /\ pc = "handler"
    /\ pc' = "respond"
    /\ respData' = [StatusCode |-> w.statusCode,
                    Headers |-> IF w.wroteHeader /\ HeaderGet(Header(w), "Content-Type") = ""
                                THEN HeaderSet(Header(w), "Content-Type", DefaultContentType)
                                ELSE Header(w),
                    Body |-> w.buf]
    /\ UNCHANGED <<heap, gw, ctx, payload, evt, req, w, resp, ret, steps, written, firstStatus, nops>>

\* ServeHTTP returns; Invoke reads the sink
HandlerReturn ==
    /\ pc = "handler"
    /\ pc' = "respond"
    /\ respData' = [StatusCode |-> w.statusCode, Headers |-> Header(w), Body |-> w.buf]
    /\ UNCHANGED <<heap, gw, ctx, payload, evt, req, w, resp, ret, steps, written, firstStatus, nops>>

CustomResponseConverter(data, fails) ==
    IF fails THEN [err |-> "custom", out |-> Nil]
    ELSE [err |-> Nil, out |-> [StatusCode |-> data.StatusCode, Body |-> data.Body]]

responseConverter(g, data, ord, fails) ==
    CASE g = "V1" -> ConvertResponseV1(data)
      [] g = "V2" -> ConvertResponseV2(data, ord)
      [] OTHER -> CustomResponseConverter(data, fails)

\* resp, err := gw.responseConverter(respData)
ConvertResponse ==
    /\ pc = "respond"
    /\ steps' = Append(steps, "convert_response")
    /\ \E ord \in RangeOrders(respData.Headers), fails \in (IF gw = "Custom" THEN BOOLEAN ELSE {FALSE}) :
          LET r == responseConverter(gw, respData, ord, fails)
          IN  IF r.err # Nil
              THEN /\ pc' = "done"
                   /\ ret' = Return(NoBytes, "failed to convert response")
                   /\ resp' = resp
              ELSE /\ pc' = "encode"
                   /\ resp' = r.out
                   /\ ret' = ret
    /\ UNCHANGED <<heap, gw, ctx, payload, evt, req, w, respData, written, firstStatus, nops>>

\* return json.Marshal(resp); a caller's own result type may not marshal
Encode ==
    /\ pc = "encode"
    /\ steps' = Append(steps, "encode")
    /\ pc' = "done"
    /\ \E fails \in (IF gw = "Custom" THEN BOOLEAN ELSE {FALSE}) :
          ret' = IF fails THEN Return(NoBytes, "json") ELSE Return(<<Marshal(resp)>>, Nil)
    /\ UNCHANGED <<heap, gw, ctx, payload, evt, req, w, respData, resp, written, firstStatus, nops>>

Next ==
    \/ Decode
    \/ ConvertRequest
    \/ Dispatch
    \/ HandlerWriteHeader
    \/ HandlerWrite
    \/ HandlerHeaderSet
    \/ HandlerHeaderAdd
    \/ HandlerHeaderDel
    \/ HandlerHeaderAssign
    \/ HandlerReturn
    \/ ConvertResponse
    \/ Encode

Spec == Init /\ [][Next]_vars

(***************************************************************************)
(* What the claims speak of.                                               *)
(***************************************************************************)
BuiltIn == gw \in {"V1", "V2"}

\* the handler has the sink
Handling == pc = "handler"

\* a built-in response converter has produced resp
Converted == BuiltIn /\ pc \in {"encode", "done"} /\ Len(steps) >= 4

\* the request converter has returned a request
RequestBuilt == Len(steps) >= 2 /\ (pc = "done" => Len(steps) > 2)

InvokeOrder == <<"decode", "convert_request", "dispatch", "convert_response", "encode">>

EvtPath(e) == IF gw = "V1" THEN e.Path ELSE e.RawPath

EvtMethod(e) == IF gw = "V1" THEN e.HTTPMethod ELSE e.RequestContext.HTTP.Method

\* what each base64 body of the model stands for
KnownBase64 ==
    (<<>> :> <<>>) @@ (<<84, 81, 61, 61>> :> <<77>>) @@ (<<84, 10, 81, 61, 61>> :> <<77>>)
    @@ (<<84, 87, 69, 61>> :> <<77, 97>>)

\* an event a built-in request converter must refuse
MustFail(e) ==
    \/ EvtPath(e) = "/%zz"
    \/ EvtMethod(e) = "BAD METHOD"
    \/ e.IsBase64Encoded /\ e.Body \notin DOMAIN KnownBase64

(***************************************************************************)
(* C1 (as stated): a handler that calls neither WriteHeader nor Write and  *)
(* changes no header yields, with either built-in response converter,      *)
(* status 200, an empty body and the base64 flag false.                    *)
(***************************************************************************)
C1_NoWritesNotBase64 ==
    (Converted /\ nops = 0) =>
        /\ resp.StatusCode = 200
        /\ resp.Body = <<>>
        /\ resp.IsBase64Encoded = FALSE

(***************************************************************************)
(* C1 (amended): such a handler yields status 200 and an empty body, and   *)
(* the base64 flag is true: a response without Content-Type is binary.     *)
(***************************************************************************)
C1_NoWritesEmptyBinary ==
    (Converted /\ nops = 0) =>
        /\ resp.StatusCode = 200
        /\ resp.Body = <<>>
        /\ resp.IsBase64Encoded = TRUE
        /\ (pc = "done" => ret.err = Nil /\ ret.payload[1].Body = <<>>)

C1_Witness == Converted /\ nops = 0 /\ gw = "V2" /\ pc = "done"

(***************************************************************************)
(* C2: while the handler runs in the legacy pipeline, the public package's *)
(* RequestContext on the request's context returns found = true and the    *)
(* request-context struct of the original event.                           *)
(***************************************************************************)
C2_PublicRequestContextFound ==
    (Handling /\ gw = "V1") =>
        LET r == GatewayRequestContext(req.ctx)
        IN  r.ok /\ r.c.v = evt.RequestContext

(***************************************************************************)
(* C3: Invoke runs decode, convert request, dispatch, convert response,    *)
(* encode in this order, each at most once; a failing step ends the        *)
(* invocation with a nil payload and an error, and nothing runs after it   *)
(* (no handler after a decode or request-conversion failure); with no      *)
(* failure it returns a payload and a nil error.                           *)
(***************************************************************************)
C3_StepsInOrder ==
    /\ Len(steps) <= Len(InvokeOrder)
    /\ \A i \in 1..Len(steps) : steps[i] = InvokeOrder[i]
    /\ (~payload.ok => Len(steps) <= 1)
    /\ (payload.ok /\ BuiltIn /\ MustFail(payload.evt) => Len(steps) <= 2)
    /\ (Len(steps) < 3 => nops = 0 /\ firstStatus = 0 /\ written = <<>>)
    /\ (pc \in {"convert", "dispatch", "handler", "respond", "encode"} =>
            Len(steps) = CASE pc = "convert" -> 1 [] pc = "dispatch" -> 2
                           [] pc = "encode" -> 4 [] OTHER -> 3)
    /\ (pc = "done" =>
            IF ret.err = Nil
            THEN steps = InvokeOrder /\ Len(ret.payload) > 0
            ELSE /\ ret.payload = NoBytes
                 /\ Len(steps) = CASE ret.err = "failed to unmarshal payload" -> 1
                                   [] ret.err = "failed to convert event to request" -> 2
                                   [] ret.err = "failed to convert response" -> 4
                                   [] OTHER -> 5)

C3_Witness == pc = "done" /\ ret.err # Nil /\ Len(steps) = 2 /\ BuiltIn

(***************************************************************************)
(* C4: with either built-in request converter, a body declared base64 that *)
(* decodes reaches the handler as the decoded bytes; one that does not     *)
(* decode gives a conversion error and the handler is never invoked; a     *)
(* body not declared base64 reaches the handler as it is.                  *)
(***************************************************************************)
C4_Base64Body ==
    (BuiltIn /\ Len(steps) >= 2) =>
        IF evt.IsBase64Encoded /\ evt.Body \notin DOMAIN KnownBase64
        THEN /\ pc = "done"
             /\ ret.err = "failed to convert event to request"
             /\ steps = <<"decode", "convert_request">>
             /\ nops = 0
        ELSE /\ (~MustFail(evt) => RequestBuilt)
             /\ (RequestBuilt =>
                    req.Body = IF evt.IsBase64Encoded THEN KnownBase64[evt.Body] ELSE evt.Body)

C4_Witness ==
    /\ Handling /\ BuiltIn /\ nops > 0
    /\ evt.IsBase64Encoded /\ evt.Body = <<84, 10, 81, 61, 61>> /\ req.Body = <<77>>

(***************************************************************************)
(* C5: the status code of a sink is the one its first WriteHeader or Write *)
(* finalized (the argument of WriteHeader, 200 for a Write); once the      *)
(* status is finalized a WriteHeader call changes neither the status nor   *)
(* the headers nor the body.                                               *)
(***************************************************************************)
C5_FirstStatusWins ==
    /\ [](pc \in {"handler", "respond", "encode", "done"} /\ Len(steps) >= 3 =>
            IF firstStatus = 0
            THEN ~w.wroteHeader /\ w.statusCode = 200
            ELSE w.wroteHeader /\ w.statusCode = firstStatus)
    /\ [][(HandlerWriteHeader /\ w.wroteHeader) => w' = w]_vars

C5_Witness ==
    Handling /\ nops = 3 /\ firstStatus = 404 /\ w.statusCode = 404 /\ w.buf = <<77>>

RECURSIVE MapsFrom(_)
MapsFrom(choices) ==
    IF DOMAIN choices = {} THEN {EmptyMap}
    ELSE LET k == CHOOSE x \in DOMAIN choices : TRUE
             rest == MapsFrom([x \in (DOMAIN choices) \ {k} |-> choices[x]])
         IN  rest \cup {MapPut(m, k, v) : m \in rest, v \in choices[k]}

RespBodies == {<<>>, <<77>>, <<255, 97>>, <<137, 80, 78>>}

TypeValues ==
    {<<t>> : t \in ContentTypes}
    \cup {<<>>, <<"text/plain", "image/png">>, <<"image/png", "text/plain">>}

EncodingValues ==
    {<<"gzip">>, <<"identity">>, <<"GZIP">>, <<"identity", "gzip">>, <<"gzip", "identity">>}

\* headers that decide the classification of the body
TypedHeaders ==
    MapsFrom(("Content-Type" :> TypeValues) @@ ("Content-Encoding" :> EncodingValues)
             @@ ("content-type" :> {<<"text/plain">>}))

\* headers with none, one or several values, cookies among them
ValuedHeaders ==
    MapsFrom(("Set-Cookie" :> SeqsUpTo({"a=1", "b=2"}, MaxVals))
             @@ ("set-cookie" :> SeqsUpTo({"c=3"}, MaxVals))
             @@ ("X-Custom-Header" :> SeqsUpTo({"value1", "value2"}, MaxVals))
             @@ ("Content-Type" :> {<<"application/json">>}))

ResponseDatas ==
    [StatusCode : StatusCodes, Headers : TypedHeaders \cup ValuedHeaders, Body : RespBodies]

InitResp ==
    /\ pc = "resp_start"
    /\ gw \in {"V1", "V2"}
    /\ respData \in ResponseDatas
    /\ ctx = Background
    /\ payload = Malformed
    /\ evt = Nil
    /\ req = Nil
    /\ w = Nil
    /\ resp = Nil
    /\ ret = Nil
    /\ steps = <<>>
    /\ written = <<>>
    /\ firstStatus = 0
    /\ nops = 0
    /\ heap = <<>>

ApplyResponseConverter ==
    /\ pc = "resp_start"
    /\ pc' = "resp_done"
    /\ \E ord \in RangeOrders(respData.Headers) :
          resp' = responseConverter(gw, respData, ord, FALSE).out
    /\ UNCHANGED <<heap, gw, ctx, payload, evt, req, w, respData, ret, steps, written, firstStatus, nops>>

NextResp == ApplyResponseConverter

SpecResp == InitResp /\ [][NextResp]_vars

\* the first value a header map holds under a name, "" when it holds none
FirstOf(h, name) ==
    IF name \in DOMAIN h /\ h[name] # <<>> THEN h[name][1] ELSE ""

\* the base64 text of each body the model draws
ExpectedBase64 ==
    (<<>> :> <<>>) @@ (<<77>> :> <<84, 81, 61, 61>>) @@ (<<255, 97>> :> <<47, 50, 69, 61>>)
    @@ (<<137, 80, 78>> :> <<105, 86, 66, 79>>)

IsSetCookie(k) == k \in {"Set-Cookie", "set-cookie", "SET-COOKIE"}

RECURSIVE ValuesInOrder(_, _)
ValuesInOrder(h, ord) ==
    IF Len(ord) = 0 THEN <<>> ELSE h[ord[1]] \o ValuesInOrder(h, Tail(ord))

(***************************************************************************)
(* C7 (as stated): a captured response whose Content-Type is text/plain,   *)
(* whatever its other headers, converts with the base64 flag false and the *)
(* body the written bytes.                                                 *)
(***************************************************************************)
C7_TextPlainNeverBase64 ==
    (pc = "resp_done" /\ FirstOf(respData.Headers, "Content-Type") = "text/plain") =>
        /\ resp.IsBase64Encoded = FALSE
        /\ resp.Body = respData.Body

(***************************************************************************)
(* C7 (amended): a captured response whose Content-Type is text/plain and  *)
(* whose Content-Encoding is not gzip converts with the base64 flag false  *)
(* and the body the written bytes; with Content-Encoding gzip the flag is  *)
(* true and the body is base64.                                            *)
(***************************************************************************)
C7_TextPlainUnlessGzip ==
    (pc = "resp_done" /\ FirstOf(respData.Headers, "Content-Type") = "text/plain") =>
        IF FirstOf(respData.Headers, "Content-Encoding") = "gzip"
        THEN resp.IsBase64Encoded = TRUE /\ resp.Body = ExpectedBase64[respData.Body]
        ELSE resp.IsBase64Encoded = FALSE /\ resp.Body = respData.Body

C7_Witness ==
    /\ pc = "resp_done" /\ gw = "V2"
    /\ respData.Headers = ("Content-Type" :> <<"text/plain">>) @@ ("Content-Encoding" :> <<"identity">>)
    /\ respData.Body = <<255, 97>> /\ resp.Body = <<255, 97>>

(***************************************************************************)
(* C8: a captured response is binary exactly when its Content-Type is      *)
(* absent, malformed, or neither text/* nor one of the five listed types,  *)
(* or when its Content-Encoding is gzip; the base64 flag is that           *)
(* classification, the body base64 when binary and the bytes otherwise.    *)
(***************************************************************************)
C8_BinaryClassification ==
    pc = "resp_done" =>
        LET ct == FirstOf(respData.Headers, "Content-Type")
            binary == \/ ct = ""
                      \/ ct \in MalformedTypes
                      \/ ct \notin (TextTypes \cup ListedTypes)
                      \/ FirstOf(respData.Headers, "Content-Encoding") = "gzip"
        IN  /\ resp.IsBase64Encoded = binary
            /\ resp.Body = IF binary THEN ExpectedBase64[respData.Body] ELSE respData.Body

C8_Witness ==
    /\ pc = "resp_done" /\ gw = "V1"
    /\ respData.Headers = ("Content-Type" :> <<"image/png">>)
    /\ respData.Body = <<137, 80, 78>> /\ resp.IsBase64Encoded /\ resp.Body = <<105, 86, 66, 79>>

(***************************************************************************)
(* C9: the HTTP-API response converter keeps every header named           *)
(* Set-Cookie, in any letter case, out of both header maps and puts its    *)
(* values, one entry each and in their order, into the cookie list; no     *)
(* other header contributes to the list.                                   *)
(***************************************************************************)
C9_SetCookieToCookies ==
    (pc = "resp_done" /\ gw = "V2") =>
        LET h == respData.Headers
            cookieKeys == {k \in DOMAIN h : IsSetCookie(k)}
        IN  /\ \A k \in cookieKeys : k \notin DOMAIN resp.Headers /\ k \notin DOMAIN resp.MultiValueHeaders
            /\ \E ord \in RangeOrders([k \in cookieKeys |-> h[k]]) :
                  resp.Cookies = ValuesInOrder(h, ord)

C9_Witness ==
    /\ pc = "resp_done" /\ gw = "V2"
    /\ "set-cookie" \in DOMAIN respData.Headers
    /\ "X-Custom-Header" \in DOMAIN respData.Headers
    /\ resp.Cookies = <<"c=3", "a=1", "b=2">>

(***************************************************************************)
(* C10: in both response converters a header (Set-Cookie apart, in the     *)
(* HTTP-API one) with exactly one value is in the single-value map with    *)
(* that value and in the multi-value map as a one-entry list; a header     *)
(* with several values is in the multi-value map only, with all its values *)
(* in order.                                                               *)
(***************************************************************************)
C10_SingleAndMultiValueMaps ==
    pc = "resp_done" =>
        \A k \in DOMAIN respData.Headers :
            LET v == respData.Headers[k]
            IN  (gw = "V2" /\ IsSetCookie(k)) \/
                /\ Len(v) = 1 =>
                      /\ k \in DOMAIN resp.Headers /\ resp.Headers[k] = v[1]
                      /\ k \in DOMAIN resp.MultiValueHeaders /\ resp.MultiValueHeaders[k] = <<v[1]>>
                /\ Len(v) > 1 =>
                      /\ k \notin DOMAIN resp.Headers
                      /\ k \in DOMAIN resp.MultiValueHeaders /\ resp.MultiValueHeaders[k] = v

C10_Witness ==
    /\ pc = "resp_done" /\ gw = "V1"
    /\ respData.Headers = ("Content-Type" :> <<"application/json">>)
                          @@ ("X-Custom-Header" :> <<"value1", "value2">>)
                          @@ ("Set-Cookie" :> <<"a=1", "b=2">>)
    /\ DOMAIN resp.Headers = {"Content-Type"}

(***************************************************************************)
(* C12: for a well-formed legacy or HTTP-API event, the result Invoke      *)
(* returns has the status the handler finalized on the sink (200 when it   *)
(* finalized none) and a body that, base64-decoded when the result's       *)
(* base64 flag is true, is exactly the bytes the handler wrote, in order.  *)
(***************************************************************************)
C12_InvokeRoundTrip ==
    (pc = "done" /\ BuiltIn /\ ret.err = Nil) =>
        LET out == ret.payload[1]
        IN  /\ out.StatusCode = (IF firstStatus = 0 THEN 200 ELSE firstStatus)
            /\ written = (IF out.IsBase64Encoded THEN DecodeString(out.Body).b ELSE out.Body)

(***************************************************************************)
(* The request converters on their own: an event is drawn, the converter   *)
(* of its schema is applied once.                                          *)
(***************************************************************************)
\* "TWE=" is base64 of "Ma", "TQ" is not base64
ReqBodies == {<<>>, <<84, 87, 69, 61>>, <<84, 81>>}

ReqMethods == {"GET", "", "BAD METHOD"}

ReqHeadersV1 ==
    {EmptyMap,
     "Host" :> "example.com",
     ("x-request-id" :> "spoof") @@ ("X-Stage" :> "spoof"),
     ("content-length" :> "99") @@ ("Host" :> "example.com"),
     "Content-Length" :> "",
     ("content-length" :> "5") @@ ("CONTENT-LENGTH" :> "7")}

ReqMultiValueHeadersV1 ==
    {EmptyMap,
     ("X-REQUEST-ID" :> <<"m1", "m2">>) @@ ("x-stage" :> <<"s1">>),
     ("Content-Length" :> <<"42">>) @@ ("Accept" :> <<"a", "b">>)}

ReqQueryV1 ==
    {EmptyMap,
     ("param1" :> "value1") @@ ("param2" :> "value2"),
     ("param3" :> "single") @@ ("a b" :> "x&y=z")}

ReqMultiValueQueryV1 ==
    {EmptyMap,
     "param3" :> <<"value3a", "value3b">>,
     ("param3" :> <<"b", "a">>) @@ ("param1" :> <<>>) @@ ("Z" :> <<"">>)}

ReqPathsV1 == {"/test", "/test?z=9&param1=old", "/%zz"}

EventV1(p, m, h, mh, q, mq, b, f) ==
    [Path |-> p, HTTPMethod |-> m, Headers |-> h, MultiValueHeaders |-> mh,
     QueryStringParameters |-> q, MultiValueQueryStringParameters |-> mq,
     Body |-> b, IsBase64Encoded |-> f, RequestContext |-> RequestContextV1]

\* events that vary in their headers and body, in their path and query
\* parameters, in their path, method and body
ReqEventsV1 ==
    {EventV1("/test", "GET", h, mh, EmptyMap, EmptyMap, b, f) :
        h \in ReqHeadersV1, mh \in ReqMultiValueHeadersV1, b \in ReqBodies, f \in BOOLEAN}
    \cup
    {EventV1(p, "GET", EmptyMap, EmptyMap, q, mq, <<>>, FALSE) :
        p \in ReqPathsV1, q \in ReqQueryV1, mq \in ReqMultiValueQueryV1}
    \cup
    {EventV1(p, m, "Host" :> "example.com", EmptyMap, EmptyMap, EmptyMap, b, f) :
        p \in ReqPathsV1, m \in ReqMethods, b \in ReqBodies, f \in BOOLEAN}

ReqHeadersV2 ==
    {EmptyMap,
     "Host" :> "example.com",
     ("x-request-id" :> "s1, s2") @@ ("x-stage" :> "dev"),
     ("accept" :> "text/html, application/json ,*/*") @@ ("cookie" :> "c0=v0"),
     ("Accept" :> "a,,b") @@ ("accept" :> " c "),
     "content-length" :> "99",
     "Content-Length" :> "",
     "Content-Length" :> ", 5"}

ReqCookiesV2 == {<<>>, <<"cookie1=value1", "cookie2=value2">>}

ReqRawQueriesV2 ==
    {"", "param=value", "b=2&a=1&a=0", "q=a b&x=%zz", "a=1#frag", "x=1#%zz"}

EventV2(p, m, h, cs, q, b, f) ==
    [RawPath |-> p, RawQueryString |-> q, Headers |-> h, Cookies |-> cs,
     Body |-> b, IsBase64Encoded |-> f, RequestContext |-> RequestContextV2(m)]

\* events that vary in their headers, cookies and body, in their raw query,
\* in their path, method and body
ReqEventsV2 ==
    {EventV2("/test", "GET", h, cs, "", b, f) :
        h \in ReqHeadersV2, cs \in ReqCookiesV2, b \in ReqBodies, f \in BOOLEAN}
    \cup
    {EventV2("/test", "GET", EmptyMap, cs, q, <<>>, FALSE) :
        cs \in ReqCookiesV2, q \in ReqRawQueriesV2}
    \cup
    {EventV2(p, m, "Host" :> "example.com", <<>>, "", b, f) :
        p \in {"/test", "/%zz"}, m \in ReqMethods, b \in ReqBodies, f \in BOOLEAN}

ReqEvents(g) == IF g = "V1" THEN ReqEventsV1 ELSE ReqEventsV2

InitReq ==
    /\ pc = "req_start"
    /\ gw \in {"V1", "V2"}
    /\ ctx \in Contexts
    /\ evt \in ReqEvents(gw)
    /\ payload = [ok |-> TRUE, evt |-> evt]
    /\ req = Nil
    /\ w = Nil
    /\ respData = Nil
    /\ resp = Nil
    /\ ret = Nil
    /\ steps = <<>>
    /\ written = <<>>
    /\ firstStatus = 0
    /\ nops = 0
    /\ heap = <<>>

\* req, err := requestConverter(ctx, evt)
ApplyRequestConverter ==
    /\ pc = "req_start"
    /\ \E ord \in EventOrders(gw, evt) :
          LET r == requestConverter(gw, ctx, evt, ord, FALSE)
          IN  IF r.err # Nil
              THEN /\ pc' = "req_failed"
                   /\ ret' = Return(NoBytes, r.err)
                   /\ req' = req
              ELSE /\ pc' = "req_done"
                   /\ req' = r.req
                   /\ ret' = ret
    /\ UNCHANGED <<heap, gw, ctx, payload, evt, w, respData, resp, steps, written, firstStatus, nops>>

NextReq == ApplyRequestConverter

SpecReq == InitReq /\ [][NextReq]_vars

RequestIdNames == {"X-Request-Id", "x-request-id", "X-REQUEST-ID"}

StageNames == {"X-Stage", "x-stage"}

(***************************************************************************)
(* C11: a request either converter builds has exactly the event's          *)
(* request-context request identifier as its X-Request-Id header and       *)
(* exactly the request-context stage as its X-Stage header, whatever the   *)
(* event's own headers carry under those names in any spelling.            *)
(***************************************************************************)
C11_IdentifyingHeadersFromContext ==
    pc = "req_done" =>
        /\ \A k \in DOMAIN req.Header :
              /\ k \in RequestIdNames =>
                    k = "X-Request-Id" /\ req.Header[k] = <<evt.RequestContext.RequestID>>
              /\ k \in StageNames =>
                    k = "X-Stage" /\ req.Header[k] = <<evt.RequestContext.Stage>>
        /\ {"X-Request-Id", "X-Stage"} \subseteq DOMAIN req.Header

C11_Witness ==
    /\ pc = "req_done"
    /\ gw = "V1"
    /\ "x-request-id" \in DOMAIN evt.Headers
    /\ "X-REQUEST-ID" \in DOMAIN evt.MultiValueHeaders

\* the query parameters each path of the model carries itself
PathQuery(path) ==
    IF path = "/test?z=9&param1=old" THEN ("z" :> <<"9">>) @@ ("param1" :> <<"old">>)
    ELSE EmptyMap

\* the values the claim gives a key: the multi-value entry, else the
\* single-value one, else what the path itself carries
MergedValues(e, k) ==
    IF k \in DOMAIN e.MultiValueQueryStringParameters
    THEN e.MultiValueQueryStringParameters[k]
    ELSE IF k \in DOMAIN e.QueryStringParameters
    THEN <<e.QueryStringParameters[k]>>
    ELSE PathQuery(e.Path)[k]

MergedKeys(e) ==
    DOMAIN e.MultiValueQueryStringParameters \cup DOMAIN e.QueryStringParameters
        \cup DOMAIN PathQuery(e.Path)

\* the key=value pairs of a raw query, in order, each taken apart and unescaped
RawQueryPairs(raw) ==
    IF raw = "" THEN <<>>
    ELSE LET parts == Split(raw, "&")
         IN  [i \in 1..Len(parts) |->
                 [key |-> QueryUnescape(Cut(parts[i], "=").before),
                  value |-> QueryUnescape(Cut(parts[i], "=").after)]]

\* the values the pairs give to key k, in order
RECURSIVE ValuesOfKey(_, _)
ValuesOfKey(pairs, k) ==
    IF Len(pairs) = 0 THEN <<>>
    ELSE (IF pairs[1].key = k THEN <<pairs[1].value>> ELSE <<>>)
             \o ValuesOfKey(Tail(pairs), k)

(***************************************************************************)
(* C13: the legacy request converter's raw query is the merge of the       *)
(* single-value and the multi-value query parameters (over what the path   *)
(* itself carries): a key of the multi-value map has exactly that map's    *)
(* values, in their order; any other key keeps its values; keys come in    *)
(* sorted order; param1, param2 and param3=[value3a, value3b] give         *)
(* param1=value1&param2=value2&param3=value3a&param3=value3b.              *)
(***************************************************************************)
C13_LegacyQueryMerge ==
    (pc = "req_done" /\ gw = "V1") =>
        LET pairs == RawQueryPairs(req.RawQuery)
        IN  /\ \A i \in 1..Len(pairs) : pairs[i].key \in MergedKeys(evt)
            /\ \A k \in MergedKeys(evt) : ValuesOfKey(pairs, k) = MergedValues(evt, k)
            /\ \A i, j \in 1..Len(pairs) :
                  i < j => pairs[i].key = pairs[j].key \/ StringLess(pairs[i].key, pairs[j].key)
            /\ (/\ evt.Path = "/test"
                /\ evt.QueryStringParameters = ("param1" :> "value1") @@ ("param2" :> "value2")
                /\ evt.MultiValueQueryStringParameters = ("param3" :> <<"value3a", "value3b">>))
               => req.RawQuery = "param1=value1&param2=value2&param3=value3a&param3=value3b"
            /\ req.RequestURI = req.Path \o (IF req.RawQuery = "" THEN "" ELSE "?" \o req.RawQuery)

C13_Witness ==
    /\ pc = "req_done"
    /\ gw = "V1"
    /\ DOMAIN evt.QueryStringParameters \cap DOMAIN evt.MultiValueQueryStringParameters # {}
    /\ req.RawQuery = "Z=&a+b=x%26y%3Dz&param3=b&param3=a"

\* what is wrong with an event of the model, if anything
BadPath == EvtPath(evt) = "/%zz"

BadBody == evt.IsBase64Encoded /\ evt.Body \notin DOMAIN KnownBase64

BadMethod == EvtMethod(evt) = "BAD METHOD"

\* a raw query whose "#" starts a fragment with a broken escape
BadURL == gw = "V2" /\ evt.RawQueryString = "x=1#%zz"

(***************************************************************************)
(* C16 (as stated): a request converter fails only for a malformed path or *)
(* a malformed base64 body; every other event is converted, whatever its   *)
(* other fields, the HTTP method included.                                 *)
(***************************************************************************)
C16_OnlyPathAndBodyFail ==
    pc \in {"req_done", "req_failed"} =>
        (pc = "req_failed" <=> (BadPath \/ BadBody))

(***************************************************************************)
(* C16 (amended): a request converter fails for a malformed path, for a    *)
(* malformed base64 body, and when http.NewRequest refuses the method or   *)
(* the URL put together from path and query ("creating request"); an event *)
(* with none of these is converted.  The first failure in this order       *)
(* names the error.                                                        *)
(***************************************************************************)
C16_PathBodyOrNewRequestFail ==
    pc \in {"req_done", "req_failed"} =>
        /\ pc = "req_failed" <=> (BadPath \/ BadBody \/ BadMethod \/ BadURL)
        /\ pc = "req_failed" =>
              ret.err = (IF BadPath
                         THEN (IF gw = "V1" THEN "parsing path" ELSE "parsing raw path")
                         ELSE IF BadBody THEN "decoding base64 body"
                         ELSE "creating request")
        /\ pc = "req_done" => req.Method = (IF EvtMethod(evt) = "" THEN "GET" ELSE EvtMethod(evt))

C16_Witness ==
    /\ pc = "req_failed"
    /\ BadMethod /\ ~BadPath /\ ~BadBody
    /\ ret.err = "creating request"

\* the segments of each header value the HTTP-API events of the model carry
Segments ==
    ("example.com" :> <<"example.com">>)
    @@ ("s1, s2" :> <<"s1", "s2">>)
    @@ ("dev" :> <<"dev">>)
    @@ ("text/html, application/json ,*/*" :> <<"text/html", "application/json", "*/*">>)
    @@ ("c0=v0" :> <<"c0=v0">>)
    @@ ("a,,b" :> <<"a", "", "b">>)
    @@ (" c " :> <<"c">>)
    @@ ("99" :> <<"99">>)
    @@ ("" :> <<"">>)
    @@ (", 5" :> <<"", "5">>)

\* the header names the converter sets itself after the event's headers
SetByConverter == {"Content-Length", "X-Request-Id", "X-Stage", "X-Amzn-Trace-Id", "Host"}

\* the names under which an event spells a header
Spellings(name) ==
    CASE name = "Accept" -> {"Accept", "accept"}
      [] name = "Cookie" -> {"Cookie", "cookie"}
      [] OTHER -> {name}

\* the values the event's own headers give to `name`, its keys taken in `ord`
RECURSIVE SegmentsOf(_, _, _)
SegmentsOf(h, name, ord) ==
    IF Len(ord) = 0 THEN <<>>
    ELSE (IF ord[1] \in Spellings(name) THEN Segments[h[ord[1]]] ELSE <<>>)
             \o SegmentsOf(h, name, Tail(ord))

(***************************************************************************)
(* C17: the HTTP-API request converter splits each event header value at   *)
(* every comma, trims each segment and appends the segments in order as    *)
(* values of that header; it appends each entry of the cookie list, in     *)
(* order, as a value of the Cookie header; and the request's raw query is  *)
(* the event's raw query string, verbatim.                                 *)
(***************************************************************************)
C17_HeadersCookiesRawQuery ==
    (pc = "req_done" /\ gw = "V2") =>
        /\ \A name \in {"Accept", "Cookie"} :
              \E ord \in RangeOrders(evt.Headers) :
                  LET vs == SegmentsOf(evt.Headers, name, ord)
                            \o (IF name = "Cookie" THEN evt.Cookies ELSE <<>>)
                  IN  IF vs = <<>> THEN name \notin DOMAIN req.Header
                      ELSE name \in DOMAIN req.Header /\ req.Header[name] = vs
        /\ \A k \in DOMAIN req.Header : k \in {"Accept", "Cookie"} \cup SetByConverter
        /\ req.RawQuery = evt.RawQueryString

(***************************************************************************)
(* A handler that keeps the sink: it hands `w` to a goroutine that goes on *)
(* using it after ServeHTTP has returned.  Invoke's respData.Headers is    *)
(* the sink's own header map, so a change of the map is a change of        *)
(* respData; respData.StatusCode is a copy, and respData.Body a slice of   *)
(* the bytes written before, which a later Write, appending, leaves alone. *)
(***************************************************************************)
Returned == pc \in {"respond", "encode"}

\* respData after the sink has become rw: the same map, the copied fields
Aliased(rw) == [respData EXCEPT !.Headers = Header(rw)]

LateStep ==
    /\ Returned
    /\ nops < MaxOps
    /\ nops' = nops + 1
    /\ UNCHANGED <<heap, pc, gw, ctx, payload, evt, req, resp, ret, steps>>

LateWriteHeader ==
    /\ LateStep
    /\ \E code \in StatusCodes :
          /\ w' = WriteHeader(w, code)
          /\ respData' = Aliased(WriteHeader(w, code))
          /\ firstStatus' = IF firstStatus = 0 THEN code ELSE firstStatus
    /\ written' = written

LateWrite ==
    /\ LateStep
    /\ \E b \in Chunks :
          /\ w' = Write(w, b)
          /\ respData' = Aliased(Write(w, b))
          /\ written' = written \o b
    /\ firstStatus' = IF firstStatus = 0 THEN 200 ELSE firstStatus

LateHeaderSet ==
    /\ LateStep
    /\ \E k \in HandlerHeaders : \E v \in HandlerValues(k) :
          /\ w' = [w EXCEPT !.header = HeaderSet(Header(w), k, v)]
          /\ respData' = Aliased([w EXCEPT !.header = HeaderSet(Header(w), k, v)])
    /\ UNCHANGED <<written, firstStatus>>

\* the goroutine writes the map while the response converter ranges over it:
\* the runtime may stop the process (concurrent map iteration and map write)
LateConcurrentMapWrite ==
    /\ pc = "respond"
    /\ nops < MaxOps
    /\ pc' = "fatal"
    /\ UNCHANGED <<heap, gw, ctx, payload, evt, req, w, respData, resp, ret, steps,
                   written, firstStatus, nops>>

NextLate ==
    \/ Next
    \/ LateWriteHeader
    \/ LateWrite
    \/ LateHeaderSet
    \/ LateConcurrentMapWrite

SpecLate == Init /\ [][NextLate]_vars

(***************************************************************************)
(* C15: once the handler has returned from ServeHTTP the captured response *)
(* is final: nothing, code of the handler that keeps the sink included,    *)
(* changes what the response converter and the encoder see.                *)
(***************************************************************************)
C15_CapturedResponseFinal ==
    [][Returned => (respData' = respData /\ pc' # "fatal")]_vars

(***************************************************************************)
(* Several invocations of one Gateway side by side.  Each variable of      *)
(* Invoke is a function of the invocation; `w` holds each invocation's     *)
(* pointer to its sink (0 is nil) and `heap` the sinks allocated so far.   *)
(* The Gateway (its handler and converters) and the caller's context are   *)
(* the same for all.                                                       *)
(***************************************************************************)
Invocations == {"a", "b"}

\* most sink operations one handler run performs while others run
MaxConcOps == 2

ConcChunks == {<<77>>, <<78>>}

ConcStatusCodes == {404}

ConcEvents(g) ==
    IF g = "V1"
    THEN {EventV1("/test", "GET", EmptyMap, EmptyMap, EmptyMap, EmptyMap, b, FALSE) :
             b \in {<<>>, <<84, 81>>}}
    ELSE {EventV2("/test", "GET", EmptyMap, <<>>, "", b, FALSE) : b \in {<<>>, <<84, 81>>}}

EventType(g) == IF g = "V1" THEN TypeV1 ELSE TypeV2

InitConc ==
    /\ gw \in {"V1", "V2"}
    /\ ctx \in Contexts
    /\ evt \in [Invocations -> ConcEvents(gw)]
    /\ payload = [i \in Invocations |-> [ok |-> TRUE, evt |-> evt[i]]]
    /\ pc = [i \in Invocations |-> "convert"]
    /\ req = [i \in Invocations |-> Nil]
    /\ w = [i \in Invocations |-> 0]
    /\ respData = [i \in Invocations |-> Nil]
    /\ resp = [i \in Invocations |-> Nil]
    /\ ret = [i \in Invocations |-> Nil]
    /\ steps = [i \in Invocations |-> <<"decode">>]
    /\ written = [i \in Invocations |-> <<>>]
    /\ firstStatus = [i \in Invocations |-> 0]
    /\ nops = [i \in Invocations |-> 0]
    /\ heap = <<>>

\* NewResponse that hands out the one sink the Gateway keeps
AllocResponseShared(h) ==
    IF Len(h) = 0 THEN [heap |-> <<NewResponse>>, ref |-> 1] ELSE [heap |-> h, ref |-> 1]

\* w := NewResponse(): a new sink at an address no other pointer holds
AllocResponse(h) == [heap |-> Append(h, NewResponse), ref |-> Len(h) + 1]

\* req, err := gw.requestConverter(ctx, evt)
ConcConvertRequest(i) ==
    /\ pc[i] = "convert"
    /\ \E ord \in EventOrders(gw, evt[i]) :
          req' = [req EXCEPT ![i] = requestConverter(gw, ctx, evt[i], ord, FALSE).req]
    /\ pc' = [pc EXCEPT ![i] = "dispatch"]
    /\ steps' = [steps EXCEPT ![i] = Append(@, "convert_request")]
    /\ UNCHANGED <<heap, gw, ctx, payload, evt, w, respData, resp, ret, written, firstStatus, nops>>

\* w := NewResponse(); gw.handler.ServeHTTP(w, req) is entered
ConcDispatch(i) ==
    /\ pc[i] = "dispatch"
    /\ LET a == AllocResponse(heap)
       IN  heap' = a.heap /\ w' = [w EXCEPT ![i] = a.ref]
    /\ pc' = [pc EXCEPT ![i] = "handler"]
    /\ steps' = [steps EXCEPT ![i] = Append(@, "dispatch")]
    /\ UNCHANGED <<gw, ctx, payload, evt, req, respData, resp, ret, written, firstStatus, nops>>

ConcHandlerStep(i) ==
    /\ pc[i] = "handler"
    /\ nops[i] < MaxConcOps
    /\ nops' = [nops EXCEPT ![i] = @ + 1]
    /\ UNCHANGED <<pc, gw, ctx, payload, evt, req, w, respData, resp, ret, steps>>

ConcHandlerWriteHeader(i) ==
    /\ ConcHandlerStep(i)
    /\ \E code \in ConcStatusCodes :
          /\ heap' = [heap EXCEPT ![w[i]] = WriteHeader(@, code)]
          /\ firstStatus' = [firstStatus EXCEPT ![i] = IF @ = 0 THEN code ELSE @]
    /\ written' = written

ConcHandlerWrite(i) ==
    /\ ConcHandlerStep(i)
    /\ \E b \in ConcChunks :
          /\ heap' = [heap EXCEPT ![w[i]] = Write(@, b)]
          /\ written' = [written EXCEPT ![i] = @ \o b]
    /\ firstStatus' = [firstStatus EXCEPT ![i] = IF @ = 0 THEN 200 ELSE @]

\* ServeHTTP returns; Invoke reads the sink its pointer leads to
ConcHandlerReturn(i) ==
    /\ pc[i] = "handler"
    /\ pc' = [pc EXCEPT ![i] = "respond"]
    /\ respData' = [respData EXCEPT ![i] =
                       [StatusCode |-> heap[w[i]].statusCode,
                        Headers |-> Header(heap[w[i]]),
                        Body |-> heap[w[i]].buf]]
    /\ UNCHANGED <<heap, gw, ctx, payload, evt, req, w, resp, ret, steps, written, firstStatus, nops>>

\* resp, err := gw.responseConverter(respData)
ConcConvertResponse(i) ==
    /\ pc[i] = "respond"
    /\ \E ord \in RangeOrders(respData[i].Headers) :
          resp' = [resp EXCEPT ![i] = responseConverter(gw, respData[i], ord, FALSE).out]
    /\ pc' = [pc EXCEPT ![i] = "encode"]
    /\ steps' = [steps EXCEPT ![i] = Append(@, "convert_response")]
    /\ UNCHANGED <<heap, gw, ctx, payload, evt, req, w, respData, ret, written, firstStatus, nops>>

\* return json.Marshal(resp)
ConcEncode(i) ==
    /\ pc[i] = "encode"
    /\ ret' = [ret EXCEPT ![i] = Return(<<Marshal(resp[i])>>, Nil)]
    /\ pc' = [pc EXCEPT ![i] = "done"]
    /\ steps' = [steps EXCEPT ![i] = Append(@, "encode")]
    /\ UNCHANGED <<heap, gw, ctx, payload, evt, req, w, respData, resp, written, firstStatus, nops>>

NextConc ==
    \E i \in Invocations :
        \/ ConcConvertRequest(i)
        \/ ConcDispatch(i)
        \/ ConcHandlerWriteHeader(i)
        \/ ConcHandlerWrite(i)
        \/ ConcHandlerReturn(i)
        \/ ConcConvertResponse(i)
        \/ ConcEncode(i)

SpecConc == InitConc /\ [][NextConc]_vars

Dispatched(i) == pc[i] \in {"handler", "respond", "encode", "done"}

(***************************************************************************)
(* C14: invocations of one Gateway that run side by side in any            *)
(* interleaving share no state: each has a sink no other invocation's      *)
(* pointer leads to, holding only its own handler's writes; the event its  *)
(* request's context gives back is its own event; and its result has the   *)
(* status and the body of its own handler's writes alone.                  *)
(***************************************************************************)
C14_NoSharedState ==
    \A i \in Invocations :
        /\ Dispatched(i) =>
              /\ \A j \in Invocations \ {i} : w[j] # w[i]
              /\ heap[w[i]].buf = written[i]
              /\ LET r == RequestContext(EventType(gw), req[i].ctx)
                 IN  r.ok /\ r.c.v = evt[i]
        /\ pc[i] = "done" =>
              LET out == ret[i].payload[1]
              IN  /\ out.StatusCode = (IF firstStatus[i] = 0 THEN 200 ELSE firstStatus[i])
                  /\ written[i] = (IF out.IsBase64Encoded THEN DecodeString(out.Body).b
                                   ELSE out.Body)

C14_Witness ==
    /\ pc["a"] = "done" /\ pc["b"] = "done"
    /\ evt["a"] # evt["b"]
    /\ written["a"] = <<77, 78>> /\ written["b"] = <<78>>
    /\ firstStatus["a"] = 200 /\ firstStatus["b"] = 404
    /\ w["a"] = 2

(***************************************************************************)
(* C18: once a built-in converter has built the request, and so before     *)
(* and while the handler runs, the internal RequestContext typed as the    *)
(* event's type finds, on the request's context, the original event (and   *)
(* typed as the other schema's event finds nothing); the context handed to *)
(* Invoke stays as it was: a lookup on it finds nothing, and what it       *)
(* carried is still seen through the request's context.                    *)
(***************************************************************************)
C18_EventOnRequestContext ==
    /\ ~RequestContext(TypeV1, ctx).ok /\ ~RequestContext(TypeV2, ctx).ok
    /\ (BuiltIn /\ RequestBuilt) =>
          /\ LET r == RequestContext(EventType(gw), req.ctx)
             IN  r.ok /\ r.c.v = evt /\ evt = payload.evt
          /\ ~RequestContext(IF gw = "V1" THEN TypeV2 ELSE TypeV1, req.ctx).ok
          /\ Value(req.ctx, traceKey) = Value(ctx, traceKey)

C18_Witness ==
    /\ Handling
    /\ gw = "V2"
    /\ ctx # Background
    /\ RequestContext(TypeV2, req.ctx).ok

ContentLengthNames == {"Content-Length", "content-length", "CONTENT-LENGTH"}

\* the Content-Length values an event's own headers may leave on the request:
\* one of the legacy single-value entries, then the multi-value entries; the
\* segments of the HTTP-API entry
SuppliedLengths(g, e) ==
    IF g = "V1"
    THEN LET ks == ContentLengthNames \cap DOMAIN e.Headers
             ms == ContentLengthNames \cap DOMAIN e.MultiValueHeaders
             mv == IF ms = {} THEN <<>> ELSE e.MultiValueHeaders[CHOOSE k \in ms : TRUE]
         IN  IF ks = {} THEN {mv} ELSE {<<e.Headers[k]>> \o mv : k \in ks}
    ELSE LET ks == ContentLengthNames \cap DOMAIN e.Headers
         IN  IF ks = {} THEN {<<>>} ELSE {Segments[e.Headers[k]] : k \in ks}

\* the decimal length of the body as the handler gets it
DecodedLength(e) ==
    LET n == IF e.IsBase64Encoded THEN Len(KnownBase64[e.Body]) ELSE Len(e.Body)
    IN  <<"0", "1", "2", "3", "4">>[n + 1]

\* the values of the request's Content-Length header, none when it has none
RequestLengths ==
    IF "Content-Length" \in DOMAIN req.Header THEN req.Header["Content-Length"] ELSE <<>>

C20_HeadersAsAtReturn ==
    Converted =>
        LET h == Header(w)
            ct == FirstOf(h, "Content-Type")
            binary == \/ ct \notin {"text/plain", DefaultContentType}
                      \/ FirstOf(h, "Content-Encoding") = "gzip"
            plain == {k \in DOMAIN h : ~(gw = "V2" /\ IsSetCookie(k))}
        IN  /\ respData.Headers = h
            /\ resp.IsBase64Encoded = binary
            /\ DOMAIN resp.MultiValueHeaders = {k \in plain : Len(h[k]) >= 1}
            /\ \A k \in DOMAIN resp.MultiValueHeaders : resp.MultiValueHeaders[k] = h[k]
            /\ DOMAIN resp.Headers = {k \in plain : Len(h[k]) = 1}
            /\ gw = "V2" =>
                  \E ord \in RangeOrders([k \in (DOMAIN h) \ plain |-> h[k]]) :
                      resp.Cookies = ValuesInOrder(h, ord)

\* a finalized sink always has a Content-Type: one that has none at the
\* return lost it after the status was finalized
C20_Witness ==
    /\ Converted
    /\ w.wroteHeader
    /\ written = <<77>>
    /\ "Content-Type" \notin DOMAIN Header(w)
    /\ "Set-Cookie" \in DOMAIN Header(w)
    /\ resp.IsBase64Encoded

====
